---- MODULE Spec2Model ----
(***************************************************************************)
(* A model of the salad-making environments of HARPLab's                   *)
(* human_ai_value_alignment drafts:                                        *)
(*   - starter_code/updated_mdp.py : SaladEnv, train_agent                 *)
(*   - starter_code/test.py        : run_trial                             *)
(*   - starter_code/gym_constrained_mdp.py : Ingredient, SaladMakingEnv    *)
(*                                                                         *)
(* Python lists that the code only reads through `in`, len(..) == 0 and    *)
(* set(..) (SaladEnv.state["actions_taken"]) are sets here; None is the    *)
(* string "None"; a dict is a function (an ordered dict is a sequence of   *)
(* its items).                                                             *)
(***************************************************************************)
EXTENDS Integers, Sequences, FiniteSets, TLC

VARIABLES
    \* ---- updated_mdp.SaladEnv (the fields of self) ----
    recipe,                 \* ordered dict: sequence of [name, type, prep_method]
    constraints,            \* [calories, allergies]
    violations,             \* [calories, allergies, availability]
    completed_ingredients,  \* set of ingredient names
    warnings,               \* list of warning messages
    current_calories,
    done,
    state,                  \* [ingredient, type, prep_method, actions_taken, completed]
    current_ingredient,
    ret,                    \* the last call on the environment and what it returned
    \* ---- train_agent / run_trial (their locals) ----
    pc,                     \* where the function is
    Q_table,                \* the rows of the Q-table read so far
    obs,                    \* the local `state`: the last encoded state
    total_reward,
    episode,                \* episodes (trials) started so far
    \* ---- encode_state applied to two environment states ----
    enc_in,
    enc_out,
    \* ---- gym_constrained_mdp ----
    bank,                   \* AVAILABLE_INGREDIENTS: name -> the Ingredient object
    envs,                   \* the SaladMakingEnv instances constructed so far
    gret,                   \* the last call on an instance and what it returned
    \* ---- simple_rl_salad.transition_func and gym_salad.SaladMakingEnv.step ----
    fsm_in,                 \* the (state, action) pair both are applied to
    fsm_out                 \* the next state of each

envVars == <<recipe, constraints, violations, completed_ingredients, warnings,
             current_calories, done, state, current_ingredient, ret>>

agentVars == <<pc, Q_table, obs, total_reward, episode>>

encVars == <<enc_in, enc_out>>

gymVars == <<bank, envs, gret>>

fsmVars == <<fsm_in, fsm_out>>

vars == <<envVars, agentVars, encVars, gymVars, fsmVars>>

----------------------------------------------------------------------------
(* Bounds of the model. *)

\* Longest recipe the environment is constructed with.
MaxRecipe == 2

\* An environment step is explored while current_calories stays within this.
MaxCalories == 90

\* Episodes of train_agent, trials run in a row on one environment.
MaxEpisodes == 2

\* run_trial is explored while |total_reward| stays within this.
MaxReward == 300

\* Warnings kept apart when the counters of a trial saturate.
MaxWarnings == 2

\* Largest number of actions in an action history given to encode_state.
MaxTaken == 2

----------------------------------------------------------------------------
(* updated_mdp.py: module constants *)

\* self.action_map: action number -> action name
action_map ==
    [a \in 0..8 |->
        <<"Measure", "Wash", "Chop", "Dice", "Shred",
          "Crush", "Grind", "Roast", "Combine">>[a + 1]]

Actions == DOMAIN action_map

\* The second (effective) binding of AVAILABLE_INGREDIENTS.
AVAILABLE_INGREDIENTS ==
    [n \in {"tomato", "carrot", "lettuce", "spinach", "almonds", "sesame_dressing",
            "peanuts", "cucumber", "onion", "cheese", "croutons"} |->
        CASE n = "tomato"  -> [type |-> "Vegetable", calories |-> 20, quantity |-> 3, allergy |-> {"tomato"}]
          [] n = "carrot"  -> [type |-> "Vegetable", calories |-> 15, quantity |-> 2, allergy |-> {"carrot"}]
          [] n = "lettuce" -> [type |-> "Vegetable", calories |-> 10, quantity |-> 1, allergy |-> {"lettuce"}]
          [] n = "spinach" -> [type |-> "Vegetable", calories |-> 12, quantity |-> 2, allergy |-> {"spinach"}]
          [] n = "almonds" -> [type |-> "Nuts", calories |-> 50, quantity |-> 100, allergy |-> {"almond", "nuts"}]
          [] n = "sesame_dressing" -> [type |-> "Dressing", calories |-> 30, quantity |-> 100, allergy |-> {"sesame"}]
          [] n = "peanuts" -> [type |-> "Nuts", calories |-> 60, quantity |-> 100, allergy |-> {"peanut", "nuts"}]
          [] n = "cucumber" -> [type |-> "Vegetable", calories |-> 10, quantity |-> 2, allergy |-> {"cucumber"}]
          [] n = "onion"   -> [type |-> "Vegetable", calories |-> 15, quantity |-> 2, allergy |-> {"onion"}]
          [] n = "cheese"  -> [type |-> "Dairy", calories |-> 90, quantity |-> 50, allergy |-> {"cheese", "dairy"}]
          [] n = "croutons" -> [type |-> "Grain", calories |-> 80, quantity |-> 20, allergy |-> {"croutons", "gluten"}]]

----------------------------------------------------------------------------
(* Inputs: the recipes and constraints an environment is constructed with. *)

\* Recipes in the form the source's recipes have (updated_mdp.py's example,
\* test.py's TEST_RECIPES); walnuts is an ingredient the bank does not hold,
\* and the last recipe asks for a prep method on a Dressing.
Item(name, type, prep_method) ==
    [name |-> name, type |-> type, prep_method |-> prep_method]

RecipeBook ==
    { << Item("tomato", "Vegetable", "Dice"),
         Item("sesame_dressing", "Dressing", "None"),
         Item("almonds", "Nuts", "Grind"),
         Item("peanuts", "Nuts", "Grind") >>,
      << Item("cheese", "Dairy", "None"),
         Item("almonds", "Nuts", "Grind"),
         Item("tomato", "Vegetable", "Dice") >>,
      << Item("walnuts", "Nuts", "None"),
         Item("tomato", "Vegetable", "Dice") >>,
      << Item("sesame_dressing", "Dressing", "Dice") >> }

\* The recipes of the book, and their first items, up to n items.
Min(a, b) == IF a <= b THEN a ELSE b

RecipesUpTo(n) ==
    UNION { { SubSeq(r, 1, k) : k \in 1..Min(n, Len(r)) } : r \in RecipeBook }

Recipes == RecipesUpTo(MaxRecipe)

ConstraintSets ==
    { [calories |-> 40, allergies |-> {"nuts", "cheese"}] }

----------------------------------------------------------------------------
(* updated_mdp.SaladEnv *)

\* list(self.recipe.keys())
keys(r) == [i \in DOMAIN r |-> r[i].name]

\* list(self.recipe.keys()).index(name), 0-based
index(r, name) == (CHOOSE i \in DOMAIN r : r[i].name = name) - 1

\* self.recipe[name]
item(r, name) == r[index(r, name) + 1]

\* self.state_space = len(recipe.keys()) * len(self.action_map)
state_space(r) == Len(r) * Cardinality(Actions)

\* int("".join(map(str, action_vector)), 2): action 0 is the leading bit.
RECURSIVE BitValue(_, _)
BitValue(taken, a) ==
    IF a > 8 THEN 0
    ELSE (IF action_map[a] \in taken THEN 2 ^ (8 - a) ELSE 0) + BitValue(taken, a + 1)

encode_state(r, cur, actions_taken) ==
    index(r, cur) * Cardinality(Actions) + BitValue(actions_taken, 0)

\* set_next_ingredient taking the last remaining ingredient instead of the first.
set_next_ingredient_last(r, completed, cur, dn) ==
    LET remaining == SelectSeq(keys(r), LAMBDA i : i \notin completed)
        pick == remaining[Len(remaining)]
    IN  IF remaining # <<>>
        THEN [current_ingredient |-> pick,
              done |-> dn,
              state |-> [ingredient |-> pick,
                         type |-> item(r, pick).type,
                         prep_method |-> item(r, pick).prep_method,
                         actions_taken |-> {},
                         completed |-> FALSE]]
        ELSE [current_ingredient |-> cur,
              done |-> TRUE,
              state |-> [ingredient |-> "None", type |-> "None",
                         prep_method |-> "None", actions_taken |-> {},
                         completed |-> TRUE]]

\* SaladEnv.set_next_ingredient, on the fields it reads; it returns the new
\* self.state and assigns self.current_ingredient or self.done.
set_next_ingredient(r, completed, cur, dn) ==
    LET remaining == SelectSeq(keys(r), LAMBDA i : i \notin completed)
    IN  IF remaining # <<>>
        THEN [current_ingredient |-> remaining[1],
              done |-> dn,
              state |-> [ingredient |-> remaining[1],
                         type |-> item(r, remaining[1]).type,
                         prep_method |-> item(r, remaining[1]).prep_method,
                         actions_taken |-> {},
                         completed |-> FALSE]]
        ELSE [current_ingredient |-> cur,
              done |-> TRUE,
              state |-> [ingredient |-> "None", type |-> "None",
                         prep_method |-> "None", actions_taken |-> {},
                         completed |-> TRUE]]

\* get_required_actions without its gate on the ingredient type.
get_required_actions_ungated(type) == {"Measure"}

\* SaladEnv.get_required_actions
get_required_actions(type) ==
    {"Measure"} \cup (IF type = "Vegetable" THEN {"Wash"}
                      ELSE IF type = "Nuts" THEN {"Roast"} ELSE {})

CalorieWarning(overshoot) ==
    [kind |-> "calories", overshoot |-> overshoot, ingredient |-> "None"]

AllergyWarning(name) ==
    [kind |-> "allergy", overshoot |-> 0, ingredient |-> name]

\* calculate_reward without the penalty for washing a non-vegetable.
calculate_reward_lenient(action_name) ==
    LET previous_actions == state.actions_taken
        ingredient_type == state.type
        correct_prep_method == state.prep_method
        ingredient_name == state.ingredient
        same(raised, reward) ==
            [raised |-> raised, reward |-> reward,
             current_calories |-> current_calories,
             warnings |-> warnings, violations |-> violations]
    IN
    \* available_ingredients.get(name, True) is falsy only for an empty entry
    IF ingredient_name \in DOMAIN AVAILABLE_INGREDIENTS
       /\ DOMAIN AVAILABLE_INGREDIENTS[ingredient_name] = {}
    THEN same("none", -500)
    ELSE IF previous_actions = {}
    THEN same("none", IF action_name = "Measure" THEN 100 ELSE -100)
    ELSE IF "Measure" \notin previous_actions
    THEN same("none", -50)
    ELSE IF ingredient_name \notin DOMAIN AVAILABLE_INGREDIENTS
    THEN same("KeyError", 0)   \* self.available_ingredients[ingredient_name]
    ELSE
    LET wash ==
            IF action_name = "Wash"
            THEN IF ingredient_type = "Vegetable"
                 THEN (IF "Wash" \notin previous_actions THEN 50 ELSE -25)
                 ELSE 0
            ELSE 0
        roast ==
            IF action_name = "Roast"
            THEN IF ingredient_type = "Nuts"
                 THEN IF previous_actions \cap {"Grind", "Crush", "Dice"} # {} THEN 75
                      ELSE IF "Roast" \notin previous_actions THEN 125
                      ELSE -10
                 ELSE -100
            ELSE 0
        dressing ==
            IF ingredient_type = "Dressing" /\ action_name \notin {"Measure", "Combine"}
            THEN -100 ELSE 0
        processing ==
            IF action_name \in {"Chop", "Dice", "Shred", "Crush", "Grind"}
            THEN (IF action_name = correct_prep_method THEN 75 ELSE -50)
            ELSE 0
        repeating == IF action_name \in previous_actions THEN -50 ELSE 0
        wash_again ==
            IF ingredient_type = "Vegetable" /\ action_name = "Wash"
            THEN (IF "Wash" \notin previous_actions THEN 50 ELSE -25)
            ELSE 0
        roast_again ==
            IF ingredient_type = "Nuts" /\ action_name = "Roast"
            THEN (IF "Roast" \notin previous_actions THEN 75 ELSE -25)
            ELSE 0
        ingredient_calories == AVAILABLE_INGREDIENTS[ingredient_name].calories
        calories == current_calories + ingredient_calories
        calorie_limit == constraints.calories
        over == calories > calorie_limit
        overshoot == calories - calorie_limit
        allergens == AVAILABLE_INGREDIENTS[ingredient_name].allergy
        user_allergies == constraints.allergies
        allergic == allergens \cap user_allergies # {}
        listed == \E i \in DOMAIN violations.allergies :
                      violations.allergies[i] = ingredient_name
        warnings1 == IF over THEN Append(warnings, CalorieWarning(overshoot))
                     ELSE warnings
        warnings2 == IF allergic THEN Append(warnings1, AllergyWarning(ingredient_name))
                     ELSE warnings1
        completion ==
            IF action_name = "Combine"
               /\ get_required_actions(ingredient_type) \subseteq previous_actions
            THEN 100 ELSE 0
    IN  [raised |-> "none",
         reward |-> wash + roast + dressing + processing + repeating
                    + wash_again + roast_again + completion,
         current_calories |-> calories,
         warnings |-> warnings2,
         violations |->
            [violations EXCEPT
                !.calories = IF over THEN overshoot ELSE @,
                !.allergies = IF allergic /\ ~listed
                              THEN Append(@, ingredient_name) ELSE @]]

\* SaladEnv.calculate_reward: the reward, and the fields it assigns.
calculate_reward(action_name) ==
    LET previous_actions == state.actions_taken
        ingredient_type == state.type
        correct_prep_method == state.prep_method
        ingredient_name == state.ingredient
        same(raised, reward) ==
            [raised |-> raised, reward |-> reward,
             current_calories |-> current_calories,
             warnings |-> warnings, violations |-> violations]
    IN
    \* available_ingredients.get(name, True) is falsy only for an empty entry
    IF ingredient_name \in DOMAIN AVAILABLE_INGREDIENTS
       /\ DOMAIN AVAILABLE_INGREDIENTS[ingredient_name] = {}
    THEN same("none", -500)
    ELSE IF previous_actions = {}
    THEN same("none", IF action_name = "Measure" THEN 100 ELSE -100)
    ELSE IF "Measure" \notin previous_actions
    THEN same("none", -50)
    ELSE IF ingredient_name \notin DOMAIN AVAILABLE_INGREDIENTS
    THEN same("KeyError", 0)   \* self.available_ingredients[ingredient_name]
    ELSE
    LET wash ==
            IF action_name = "Wash"
            THEN IF ingredient_type = "Vegetable"
                 THEN (IF "Wash" \notin previous_actions THEN 50 ELSE -25)
                 ELSE -100
            ELSE 0
        roast ==
            IF action_name = "Roast"
            THEN IF ingredient_type = "Nuts"
                 THEN IF previous_actions \cap {"Grind", "Crush", "Dice"} # {} THEN 75
                      ELSE IF "Roast" \notin previous_actions THEN 125
                      ELSE -10
                 ELSE -100
            ELSE 0
        dressing ==
            IF ingredient_type = "Dressing" /\ action_name \notin {"Measure", "Combine"}
            THEN -100 ELSE 0
        processing ==
            IF action_name \in {"Chop", "Dice", "Shred", "Crush", "Grind"}
            THEN (IF action_name = correct_prep_method THEN 75 ELSE -50)
            ELSE 0
        repeating == IF action_name \in previous_actions THEN -50 ELSE 0
        wash_again ==
            IF ingredient_type = "Vegetable" /\ action_name = "Wash"
            THEN (IF "Wash" \notin previous_actions THEN 50 ELSE -25)
            ELSE 0
        roast_again ==
            IF ingredient_type = "Nuts" /\ action_name = "Roast"
            THEN (IF "Roast" \notin previous_actions THEN 75 ELSE -25)
            ELSE 0
        ingredient_calories == AVAILABLE_INGREDIENTS[ingredient_name].calories
        calories == current_calories + ingredient_calories
        calorie_limit == constraints.calories
        over == calories > calorie_limit
        overshoot == calories - calorie_limit
        allergens == AVAILABLE_INGREDIENTS[ingredient_name].allergy
        user_allergies == constraints.allergies
        allergic == allergens \cap user_allergies # {}
        listed == \E i \in DOMAIN violations.allergies :
                      violations.allergies[i] = ingredient_name
        warnings1 == IF over THEN Append(warnings, CalorieWarning(overshoot))
                     ELSE warnings
        warnings2 == IF allergic THEN Append(warnings1, AllergyWarning(ingredient_name))
                     ELSE warnings1
        completion ==
            IF action_name = "Combine"
               /\ get_required_actions(ingredient_type) \subseteq previous_actions
            THEN 100 ELSE 0
    IN  [raised |-> "none",
         reward |-> wash + roast + dressing + processing + repeating
                    + wash_again + roast_again + completion,
         current_calories |-> calories,
         warnings |-> warnings2,
         violations |->
            [violations EXCEPT
                !.calories = IF over THEN overshoot ELSE @,
                !.allergies = IF allergic /\ ~listed
                              THEN Append(@, ingredient_name) ELSE @]]

\* What a call returned.
Returned(op, action, obs_type, code, reward, dn, raised) ==
    [op |-> op, action |-> action, obs_type |-> obs_type, obs |-> code,
     reward |-> reward, done |-> dn, raised |-> raised]

\* SaladEnv.step: the environment after step(action), and what step returns.
step(action) ==
    LET here == [completed_ingredients |-> completed_ingredients,
                 current_ingredient |-> current_ingredient,
                 state |-> state, done |-> done,
                 current_calories |-> current_calories,
                 warnings |-> warnings, violations |-> violations]
    IN
    IF done
    THEN [here EXCEPT !.done = done] @@
         [ret |-> Returned("step", action, "dict", 0, 0, done, "none")]
    ELSE
    LET action_name == action_map[action]
        cr == calculate_reward(action_name)
    IN
    IF cr.raised # "none"
    THEN here @@ [ret |-> Returned("step", action, "none", 0, 0, done, cr.raised)]
    ELSE
    LET taken == state.actions_taken \cup {action_name}
        completed == IF action_name = "Combine"
                     THEN completed_ingredients \cup {current_ingredient}
                     ELSE completed_ingredients
        nxt == IF action_name = "Combine"
               THEN set_next_ingredient(recipe, completed, current_ingredient, done)
               ELSE [current_ingredient |-> current_ingredient, done |-> done,
                     state |-> [state EXCEPT !.actions_taken = taken]]
    IN  [completed_ingredients |-> completed,
         current_ingredient |-> nxt.current_ingredient,
         state |-> nxt.state,
         done |-> nxt.done,
         current_calories |-> cr.current_calories,
         warnings |-> cr.warnings,
         violations |-> cr.violations,
         ret |-> Returned("step", action, "int",
                          encode_state(recipe, nxt.current_ingredient,
                                       nxt.state.actions_taken),
                          cr.reward, nxt.done, "none")]

\* reset without `self.current_calories = 0`.
reset_keeps_calories ==
    LET nxt == set_next_ingredient(recipe, {}, current_ingredient, FALSE)
    IN  [completed_ingredients |-> {},
         current_ingredient |-> nxt.current_ingredient,
         state |-> nxt.state,
         done |-> nxt.done,
         current_calories |-> current_calories,
         warnings |-> <<>>,
         violations |-> violations,
         ret |-> Returned("reset", -1, "int",
                          encode_state(recipe, nxt.current_ingredient,
                                       nxt.state.actions_taken),
                          0, nxt.done, "none")]

\* SaladEnv.reset: the environment after reset(), and the state it returns.
reset ==
    LET nxt == set_next_ingredient(recipe, {}, current_ingredient, FALSE)
    IN  [completed_ingredients |-> {},
         current_ingredient |-> nxt.current_ingredient,
         state |-> nxt.state,
         done |-> nxt.done,
         current_calories |-> 0,
         warnings |-> <<>>,
         violations |-> violations,
         ret |-> Returned("reset", -1, "int",
                          encode_state(recipe, nxt.current_ingredient,
                                       nxt.state.actions_taken),
                          0, nxt.done, "none")]

\* The assignment of a call's outcome to the fields of self.
Assign(post) ==
    /\ completed_ingredients' = post.completed_ingredients
    /\ current_ingredient' = post.current_ingredient
    /\ state' = post.state
    /\ done' = post.done
    /\ current_calories' = post.current_calories
    /\ warnings' = post.warnings
    /\ violations' = post.violations
    /\ ret' = post.ret
    /\ UNCHANGED <<recipe, constraints>>

\* SaladEnv.__init__(recipe, constraints), which ends with self.reset().
SaladEnvNew(recipes) ==
    /\ recipe \in recipes
    /\ constraints \in ConstraintSets
    /\ violations = [calories |-> 0, allergies |-> <<>>, availability |-> <<>>]
    /\ completed_ingredients = {}
    /\ warnings = <<>>
    /\ current_calories = 0
    /\ done = FALSE
    /\ current_ingredient = set_next_ingredient(recipe, {}, "None", FALSE).current_ingredient
    /\ state = set_next_ingredient(recipe, {}, "None", FALSE).state
    /\ ret = Returned("init", -1, "none", 0, 0, FALSE, "none")

SaladEnvInit == SaladEnvNew(Recipes)

\* gym_constrained_mdp.AVAILABLE_INGREDIENTS as the module builds it.
Ingredient(kind, name, available_quantity, calories, dietary_restrictions) ==
    [kind |-> kind, name |-> name,
     available_quantity |-> available_quantity,
     state |-> "raw",
     dietary_restrictions |-> dietary_restrictions,
     prep_step |-> 0,
     requested_quantity |-> 0,
     prep_flow |-> <<>>,
     calories |-> calories]

GymBank ==
    [n \in {"tomato", "carrot", "lettuce", "spinach", "almonds", "sesame_dressing"} |->
        CASE n = "tomato"  -> Ingredient("Vegetable", n, 2, 20, <<>>)
          [] n = "carrot"  -> Ingredient("Vegetable", n, 3, 25, <<>>)
          [] n = "lettuce" -> Ingredient("Vegetable", n, 2, 10, <<>>)
          [] n = "spinach" -> Ingredient("Vegetable", n, 3, 15, <<>>)
          [] n = "almonds" -> Ingredient("Nuts", n, 100, 50, <<"nut">>)
          [] n = "sesame_dressing" -> Ingredient("Dressing", n, 100, 60, <<>>)]

GymReturned(e, op, action, reward, dn, raised) ==
    [env |-> e, op |-> op, action |-> action, reward |-> reward,
     done |-> dn, raised |-> raised]

\* No SaladMakingEnv has been constructed.
GymIdle ==
    /\ bank = GymBank
    /\ envs = <<>>
    /\ gret = GymReturned(0, "none", "None", 0, FALSE, "none")

\* Neither salad draft has been applied.
FsmIdle == fsm_in = <<>> /\ fsm_out = <<>>

(* A caller of the environment: reset() and step(action) in any order. *)

AgentIdle ==
    /\ pc = "caller" /\ Q_table = <<>> /\ obs = 0
    /\ total_reward = 0 /\ episode = 0

EncIdle == enc_in = <<>> /\ enc_out = <<>>

Reset ==
    /\ \E post \in {reset} : Assign(post)
    /\ UNCHANGED <<agentVars, encVars, gymVars, fsmVars>>

Step(action) ==
    /\ \E post \in {step(action)} :
        /\ post.current_calories <= MaxCalories
        /\ Assign(post)
    /\ UNCHANGED <<agentVars, encVars, gymVars, fsmVars>>

Init == SaladEnvInit /\ AgentIdle /\ EncIdle /\ GymIdle /\ FsmIdle

Next ==
    \/ Reset
    \/ \E action \in Actions : Step(action)

Spec == Init /\ [][Next]_vars

(* Claims about SaladEnv under any caller. *)

\* The first k keys of the recipe.
FirstKeys(k) == { recipe[i].name : i \in 1..k }

C1_Order ==
    LET k == Cardinality(completed_ingredients)
    IN  /\ completed_ingredients = FirstKeys(k)
        /\ done <=> k = Len(recipe)
        /\ ~done => /\ current_ingredient = recipe[k + 1].name
                     /\ state.ingredient = current_ingredient

\* A step that was not refused (done) and did not raise: ret' tells its action.
Stepped == ret'.op = "step" /\ ~done /\ ret'.raised = "none"

C1_Combine ==
    Stepped =>
        IF action_map[ret'.action] = "Combine"
        THEN /\ completed_ingredients' =
                    completed_ingredients \cup {current_ingredient}
             /\ Cardinality(completed_ingredients') =
                    Cardinality(completed_ingredients) + 1
             /\ done' <=> Cardinality(completed_ingredients') = Len(recipe)
        ELSE /\ completed_ingredients' = completed_ingredients
             /\ current_ingredient' = current_ingredient
             /\ done' = done

\* C1: the ingredients are worked on one at a time in recipe key order; only a
\* Combine step completes the current ingredient and moves on, and done
\* becomes true exactly at the step that performs the len(recipe)-th Combine
\* since the last reset.
C1_IngredientOrder == []C1_Order /\ [][C1_Combine]_vars

\* C1: an episode of a two-ingredient recipe has been completed by steps.
C1_Witness ==
    /\ done /\ Len(recipe) = 2 /\ ret.op = "step"
    /\ Cardinality(completed_ingredients) = 2

\* C3: every integer state returned by reset() and step() lies in the
\* declared observation_space: 0 <= s < len(recipe) * 9.
C3_ObservationInSpace ==
    ret.obs_type = "int" => ret.obs \in 0..(Len(recipe) * 9 - 1)

\* The actions the claimed checklist requires of an ingredient of this type.
C7_Checked(type, taken) ==
    /\ "Measure" \in taken
    /\ type = "Vegetable" => "Wash" \in taken
    /\ type = "Nuts" => "Roast" \in taken

\* C7: on a Combine action the +100 completion bonus is added exactly when
\* the actions taken on the ingredient include Measure, and Wash for a
\* Vegetable, and Roast for Nuts; for every other type Measure suffices.
\* (A Combine earns nothing else, so the bonus is the whole reward.)
C7_BonusGatedByType ==
    [][(Stepped /\ action_map[ret'.action] = "Combine") =>
          /\ ret'.reward = 100 <=> C7_Checked(state.type, state.actions_taken)
          /\ ret'.reward \in {100, 0, -50, -100}]_vars

\* C7: a Dairy ingredient was combined after Measure alone, with the bonus.
C7_Witness ==
    /\ ret.op = "step" /\ ret.action = 8 /\ ret.reward = 100
    /\ completed_ingredients = {"cheese"}
    /\ current_calories = 90

\* C8: reset() returns the environment to its initial episode state: nothing
\* completed, done false, current_calories 0, warnings empty, the current
\* ingredient is the first recipe key with no actions taken, and the state
\* returned is 0.
C8_ResetInitial ==
    ret.op = "reset" =>
        /\ completed_ingredients = {}
        /\ ~done
        /\ current_calories = 0
        /\ warnings = <<>>
        /\ current_ingredient = recipe[1].name
        /\ state.ingredient = recipe[1].name
        /\ state.type = recipe[1].type
        /\ state.prep_method = recipe[1].prep_method
        /\ state.actions_taken = {}
        /\ ret.obs_type = "int" /\ ret.obs = 0 /\ ~ret.done

\* C8: a reset after an episode in which the calorie limit was exceeded.
C8_Witness ==
    ret.op = "reset" /\ violations.calories > 0 /\ violations.allergies # <<>>

\* The actions the ingredient type does not admit.
C15_Inadmissible(type, action_name) ==
    \/ action_name = "Wash" /\ type # "Vegetable"
    \/ action_name = "Roast" /\ type # "Nuts"
    \/ type = "Dressing" /\ action_name \notin {"Measure", "Combine"}

\* C15: a step whose action the ingredient type does not admit (Wash on a
\* non-Vegetable, Roast on a non-Nuts ingredient, anything but Measure and
\* Combine on a Dressing) returns a strictly negative reward, in every
\* action history.
C15_InadmissibleNegative ==
    [][(Stepped /\ C15_Inadmissible(state.type, action_map[ret'.action]))
          => ret'.reward < 0]_vars

\* C15: a Dressing whose recipe names Dice as its prep method was diced after
\* it was measured: the penalty of the type outweighs the reward of the
\* correct prep method.
C15_Witness ==
    /\ ret.op = "step" /\ ret.raised = "none" /\ action_map[ret.action] = "Dice"
    /\ ~done /\ state.type = "Dressing"
    /\ state.actions_taken = {"Measure", "Dice"}
    /\ ret.reward = -25

\* C11: when the episode is done, every recipe ingredient whose allergen set
\* intersects the user's allergies is listed in violations['allergies'].
C11_AllergensListed ==
    done =>
        \A i \in DOMAIN recipe :
            (/\ recipe[i].name \in DOMAIN AVAILABLE_INGREDIENTS
             /\ AVAILABLE_INGREDIENTS[recipe[i].name].allergy
                    \cap constraints.allergies # {})
                => \E k \in DOMAIN violations.allergies :
                        violations.allergies[k] = recipe[i].name

\* The calories of the ingredients worked on so far in the episode, each
\* counted once.
RECURSIVE CaloriesOf(_)
CaloriesOf(names) ==
    IF names = {} THEN 0
    ELSE LET n == CHOOSE x \in names : TRUE
         IN  (IF n \in DOMAIN AVAILABLE_INGREDIENTS
              THEN AVAILABLE_INGREDIENTS[n].calories ELSE 0)
             + CaloriesOf(names \ {n})

\* C12: current_calories is the total of the salad: each ingredient's
\* calories are added at most once per episode.
C12_CaloriesOncePerIngredient ==
    current_calories <=
        CaloriesOf(completed_ingredients
                   \cup (IF done THEN {} ELSE {current_ingredient}))

----------------------------------------------------------------------------
(* updated_mdp.train_agent(env, episodes)                                  *)
(* The Q-values are reals and are not modelled: in every step              *)
(* random.uniform(0, 1) < EPSILON can hold, and env.action_space.sample()  *)
(* can return any action, so the action of a step is any action.  What is  *)
(* kept of Q is its shape: Q[state, :] raises IndexError outside it.       *)

\* A Q-table with one row per state of env.observation_space.
num_states_small(r) == state_space(r)

\* num_states = 2 ** len(env.action_map) * len(env.recipe.keys())

num_states(r) == 2 ^ Cardinality(Actions) * Len(r)

\* for episode in range(episodes): state = env.reset(); done = False
TrainReset ==
    /\ pc = "for" /\ episode < MaxEpisodes
    /\ \E post \in {reset} :
        /\ Assign(post)
        /\ obs' = post.ret.obs
    /\ episode' = episode + 1
    /\ pc' = "while"
    /\ UNCHANGED <<Q_table, total_reward, encVars, gymVars, fsmVars>>

\* One turn of `while not done`: an action, env.step, the Q-learning update.
\* An exception of env.step (KeyError) or of the indexing of Q ends the call.
TrainStep(action) ==
    /\ pc = "while" /\ ~ret.done
    /\ \E post \in {step(action)} :
        /\ post.current_calories <= MaxCalories
        /\ Assign(post)
        /\ IF post.ret.raised # "none"
           THEN obs' = obs /\ pc' = post.ret.raised
           ELSE IF obs \in 0..(num_states(recipe) - 1)
                   /\ post.ret.obs \in 0..(num_states(recipe) - 1)
           THEN obs' = post.ret.obs /\ pc' = "while"
           ELSE obs' = obs /\ pc' = "IndexError"
    /\ UNCHANGED <<Q_table, total_reward, episode, encVars, gymVars, fsmVars>>

\* The while loop ends; the next episode, or return Q.
TrainDone ==
    /\ pc = "while" /\ ret.done
    /\ pc' = IF episode < MaxEpisodes THEN "for" ELSE "returned"
    /\ UNCHANGED <<envVars, Q_table, obs, total_reward, episode, encVars, gymVars, fsmVars>>

InitTrain ==
    /\ SaladEnvInit /\ EncIdle /\ GymIdle /\ FsmIdle
    /\ pc = "for" /\ Q_table = <<>> /\ obs = 0
    /\ total_reward = 0 /\ episode = 0

NextTrain ==
    \/ TrainReset
    \/ \E action \in Actions : TrainStep(action)
    \/ TrainDone

SpecTrain == InitTrain /\ [][NextTrain]_vars

\* C4: during train_agent every state returned by env.reset() and env.step()
\* is a valid row index of the Q-table: 0 <= s < 2^9 * len(recipe).
C4_StateIndexesQ ==
    /\ pc # "IndexError"
    /\ ret.obs_type = "int" => ret.obs \in 0..(2 ^ 9 * Len(recipe) - 1)
    /\ obs \in 0..(2 ^ 9 * Len(recipe) - 1)

\* C4: training reached the largest state of a two-ingredient recipe: all
\* eight preparation actions taken on the second ingredient.
C4_Witness ==
    /\ pc = "while" /\ Len(recipe) = 2
    /\ obs = 9 + 510

----------------------------------------------------------------------------
(* test.run_trial(env, Q_table), called for several trials in a row on one  *)
(* environment.  A row of the Q-table is drawn when the trial first reads   *)
(* it, from QRows; a trial reads a row it has read before as it was.        *)

\* Q-table rows: the untrained row of np.zeros, and rows with one best
\* action among Measure, Wash, Roast and Combine.
ZeroRow == [a \in Actions |-> 0]

OneHot(best) == [a \in Actions |-> IF a = best THEN 1 ELSE 0]

QRows == {ZeroRow} \cup { OneHot(a) : a \in {0, 1, 7, 8} }

\* np.argmax(row): the first index of the largest value.
ArgMax(row) ==
    CHOOSE a \in DOMAIN row :
        /\ \A b \in DOMAIN row : row[b] <= row[a]
        /\ \A b \in DOMAIN row : b < a => row[b] < row[a]

\* The rows Q_table[s, :] can be, given the rows read so far.
RowsAt(s) == IF s \in DOMAIN Q_table THEN {Q_table[s]} ELSE QRows

Clamp(x, lo, hi) == IF x < lo THEN lo ELSE IF x > hi THEN hi ELSE x

\* The entries of list `new` after its first `from` entries that `old` lacks.
RECURSIVE Fresh(_, _, _)
Fresh(old, new, from) ==
    IF from >= Len(new) THEN <<>>
    ELSE (IF \E i \in DOMAIN old : old[i] = new[from + 1]
          THEN <<>> ELSE <<new[from + 1]>>) \o Fresh(old, new, from + 1)

\* The counters a trial only writes, saturated: current_calories at
\* MaxCalories, and a full list of warnings takes only warnings it lacks.
\* run_trial reads the encoded state and done, which do not depend on them.
Saturated(post) ==
    [post EXCEPT
        !.current_calories = Clamp(@, 0, MaxCalories),
        !.warnings = IF Len(warnings) >= MaxWarnings
                     THEN warnings \o Fresh(warnings, @, Len(warnings))
                     ELSE @]

\* run_trial is called: state = env.reset(); done = False; total_reward = 0
RunTrial ==
    /\ pc \in {"call", "returned"} /\ episode < MaxEpisodes
    /\ \E post \in {reset} :
        /\ Assign(post)
        /\ obs' = post.ret.obs
    /\ Q_table' = <<>>
    /\ total_reward' = 0
    /\ episode' = episode + 1
    /\ pc' = "while"
    /\ UNCHANGED <<encVars, gymVars, fsmVars>>

\* `while not done`, with done false: into the body of the loop.
TrialWhile ==
    /\ pc = "while" /\ ~ret.done
    /\ pc' = "body"
    /\ UNCHANGED <<envVars, Q_table, obs, total_reward, episode, encVars, gymVars, fsmVars>>

\* The body of the loop: the greedy action, env.step, the reward.
\* With `saturating` the write-only counters saturate; without, the step is
\* explored while they stay within MaxCalories and MaxReward.
TrialStep(saturating) ==
    /\ pc = "body"
    /\ \E row \in RowsAt(obs) :
       \E post \in {step(ArgMax(row))} :
        /\ Q_table' = (obs :> row) @@ Q_table
        /\ IF saturating
           THEN /\ Assign(Saturated(post))
                /\ total_reward' = Clamp(total_reward + post.ret.reward,
                                          -MaxReward, MaxReward)
           ELSE /\ post.current_calories <= MaxCalories
                /\ total_reward + post.ret.reward \in -MaxReward..MaxReward
                /\ Assign(post)
                /\ total_reward' = total_reward + post.ret.reward
        /\ IF post.ret.raised # "none"
           THEN obs' = obs /\ pc' = post.ret.raised
           ELSE obs' = post.ret.obs /\ pc' = "while"
    /\ UNCHANGED <<episode, encVars, gymVars, fsmVars>>

\* `while not done`, with done true: return total_reward, env.violations
TrialReturn ==
    /\ pc = "while" /\ ret.done
    /\ pc' = "returned"
    /\ UNCHANGED <<envVars, Q_table, obs, total_reward, episode, encVars, gymVars, fsmVars>>

InitTrial ==
    /\ SaladEnvInit /\ EncIdle /\ GymIdle /\ FsmIdle
    /\ pc = "call" /\ Q_table = <<>> /\ obs = 0
    /\ total_reward = 0 /\ episode = 0

TrialStepBounded == TrialStep(FALSE)

NextTrial == RunTrial \/ TrialWhile \/ TrialStepBounded \/ TrialReturn

SpecTrial == InitTrial /\ [][NextTrial]_vars

\* C5: the violations run_trial returns are those collected during that
\* trial: the calorie overshoot and every allergy entry of the result were
\* logged by a step of this trial (each logging also appends a warning, and
\* reset() empties the warnings at the start of the trial).
C5_ViolationsOfThisTrial ==
    pc = "returned" =>
        /\ violations.calories > 0 =>
              \E i \in DOMAIN warnings : warnings[i].kind = "calories"
        /\ \A j \in DOMAIN violations.allergies :
              \E i \in DOMAIN warnings :
                  warnings[i] = AllergyWarning(violations.allergies[j])

(* One trial, with the scheduling of sequential code: a step that can be   *)
(* taken is taken.                                                          *)

\* A trial on a recipe whose ingredients the bank holds, as test.py's are.
InitFairTrial ==
    /\ InitTrial
    /\ \A i \in DOMAIN recipe : recipe[i].name \in DOMAIN AVAILABLE_INGREDIENTS

RunOneTrial == episode = 0 /\ RunTrial

TrialStepSaturating == TrialStep(TRUE)

NextFairTrial ==
    RunOneTrial \/ TrialWhile \/ TrialStepSaturating \/ TrialReturn

FairTrial == InitFairTrial /\ [][NextFairTrial]_vars /\ WF_vars(NextFairTrial)

\* C6: run_trial executes one trial and returns: with every Q-table, the
\* greedy policy brings the environment to done after finitely many steps.
C6_TrialReturns == <>(pc = "returned")

----------------------------------------------------------------------------
(* SaladEnv.encode_state as a function of the fields it reads, applied to  *)
(* two states of one environment: a current ingredient and the actions     *)
(* taken on it (Combine is never among them when encode_state runs: step   *)
(* replaces self.state on a Combine before it encodes).                    *)

PrepActions == { action_map[a] : a \in Actions } \ {"Combine"}

Histories == { h \in SUBSET PrepActions : Cardinality(h) <= MaxTaken }

EnvStates(r) == [ingredient : { r[i].name : i \in DOMAIN r }, actions_taken : Histories]

InitEncode ==
    /\ SaladEnvNew(RecipeBook) /\ AgentIdle /\ GymIdle /\ FsmIdle
    /\ enc_in \in EnvStates(recipe) \X EnvStates(recipe)
    /\ enc_out = <<>>

Encode ==
    /\ enc_out = <<>>
    /\ enc_out' = [i \in 1..2 |->
                      encode_state(recipe, enc_in[i].ingredient,
                                   enc_in[i].actions_taken)]
    /\ UNCHANGED <<envVars, agentVars, enc_in, gymVars, fsmVars>>

NextEncode == Encode

SpecEncode == InitEncode /\ [][NextEncode]_vars

\* C2: encode_state is a faithful encoding: two different pairs (index of the
\* current ingredient, set of actions taken on it) never get the same code.
C2_EncodingFaithful ==
    (enc_out # <<>> /\ enc_in[1] # enc_in[2]) => enc_out[1] # enc_out[2]

----------------------------------------------------------------------------
(* gym_constrained_mdp.py: Ingredient and SaladMakingEnv.                   *)
(* The Ingredient objects live in the module-level AVAILABLE_INGREDIENTS    *)
(* (`bank`); an instance's self.ingredients maps names to those objects, so *)
(* it is the list of its names here.                                        *)

\* self.possible_actions of each class, in the key order of the dict: the
\* base class inserts Measure and Combine, the subclass updates after them.
possible_actions(kind) ==
    CASE kind = "Vegetable" ->
            << [key |-> "Measure", actions |-> <<"Measure">>],
               [key |-> "Combine", actions |-> <<"Combine">>],
               [key |-> "Wash", actions |-> <<"Wash">>],
               [key |-> "Prepare", actions |-> <<"Chop", "Dice", "Shred">>] >>
      [] kind = "Nuts" ->
            << [key |-> "Measure", actions |-> <<"Measure">>],
               [key |-> "Combine", actions |-> <<"Combine">>],
               [key |-> "Prepare", actions |-> <<"Crush", "Dice", "Grind">>],
               [key |-> "Roast", actions |-> <<"Roast">>] >>
      [] kind = "Dressing" ->
            << [key |-> "Measure", actions |-> <<"Measure">>],
               [key |-> "Combine", actions |-> <<"Combine">>] >>

\* x in list
In(x, list) == \E i \in DOMAIN list : list[i] = x

\* str.lower() of an action name
lower(action) ==
    CASE action = "Measure" -> "measure" [] action = "Combine" -> "combine"
      [] action = "Wash" -> "wash" [] action = "Chop" -> "chop"
      [] action = "Dice" -> "dice" [] action = "Shred" -> "shred"
      [] action = "Crush" -> "crush" [] action = "Grind" -> "grind"
      [] action = "Roast" -> "roast" [] action = "Mix" -> "mix"
      [] action = "Serve" -> "serve"

\* Ingredient.update_state with Ingredient.apply_ingredient_effects: the
\* result ("success", "invalid", or the exception raised) and the object.
update_state(ing, action) ==
    LET pa == possible_actions(ing.kind)
    IN  IF ing.prep_step + 1 \notin DOMAIN pa
        THEN [result |-> "IndexError", ing |-> ing]
        ELSE IF In(action, pa[ing.prep_step + 1].actions)
        THEN IF action = "Measure" /\ ing.requested_quantity > ing.available_quantity
             THEN [result |-> "ValueError", ing |-> ing]
             ELSE [result |-> "success",
                   ing |-> [ing EXCEPT
                       !.available_quantity =
                           IF action = "Measure" THEN @ - ing.requested_quantity ELSE @,
                       !.state = lower(action),
                       !.prep_step = @ + 1]]
        ELSE [result |-> "invalid", ing |-> ing]

\* Ingredient.is_ready
is_ready(ing) == ing.prep_step >= Len(ing.prep_flow)

\* The prep_flow initialize_ingredients assigns; the object keeps the one it
\* has when no branch assigns (a Dressing with a prep method).
prep_flow_of(ing, prep_method) ==
    IF prep_method # "None"
    THEN IF ing.kind = "Vegetable" THEN <<"Measure", "Wash", prep_method, "Combine">>
         ELSE IF ing.kind = "Nuts" THEN <<"Measure", prep_method, "Roast", "Combine">>
         ELSE ing.prep_flow
    ELSE IF ing.kind = "Vegetable" THEN <<"Measure", "Wash", "Combine">>
         ELSE IF ing.kind = "Nuts" THEN <<"Measure", "Roast", "Combine">>
         ELSE <<"Measure", "Combine">>

\* SaladMakingEnv.initialize_ingredients from recipe item i on: the bank,
\* the ingredients collected, the violations written, the exception raised.
RECURSIVE initialize_ingredients(_, _, _, _, _)
initialize_ingredients(rcp, i, bk, ingredients, viol) ==
    IF i > Len(rcp)
    THEN [bank |-> bk, ingredients |-> ingredients, violations |-> viol,
          raised |-> "none"]
    ELSE
    LET ingredient_name == rcp[i].name
    IN
    IF ingredient_name \notin DOMAIN bk
    THEN initialize_ingredients(rcp, i + 1, bk, ingredients,
            [viol EXCEPT !.availability =
                (ingredient_name :> [unavailable |-> TRUE, excess |-> 0]) @@ @])
    ELSE
    LET requested == [bk EXCEPT ![ingredient_name].requested_quantity = rcp[i].quantity]
        ingredient == requested[ingredient_name]
        prep_method == rcp[i].prep_method
        pa == possible_actions(ingredient.kind)
    IN
    IF ingredient.requested_quantity > ingredient.available_quantity
    THEN initialize_ingredients(rcp, i + 1, requested, ingredients,
            [viol EXCEPT !.availability =
                (ingredient_name :>
                    [unavailable |-> FALSE,
                     excess |-> ingredient.requested_quantity
                                - ingredient.available_quantity]) @@ @])
    ELSE IF prep_method # "None"
            /\ \E k \in DOMAIN pa : pa[k].key = "Prepare"
                                     /\ ~In(prep_method, pa[k].actions)
    THEN [bank |-> requested, ingredients |-> ingredients, violations |-> viol,
          raised |-> "ValueError"]
    ELSE initialize_ingredients(rcp, i + 1,
            [requested EXCEPT ![ingredient_name].prep_flow =
                                    prep_flow_of(ingredient, prep_method)],
            Append(ingredients, ingredient_name), viol)

NoViolations == [calories |-> 0, allergies |-> <<>>, availability |-> <<>>]

\* SaladMakingEnv.get_stage
get_stage(env, bk) ==
    IF env.current_step < Len(env.ingredients)
    THEN LET kind == bk[env.ingredients[env.current_step + 1]].kind
         IN  IF kind = "Vegetable" THEN "Vegetables"
             ELSE IF kind = "Dressing" THEN "Dressing" ELSE "Nuts"
    ELSE IF env.current_step = Len(env.ingredients) THEN "Mix"
    ELSE IF env.current_step = Len(env.ingredients) + 1 THEN "Serve"
    ELSE "Complete"

\* SaladMakingEnv.check_constraints: the count, and the violations written.
check_constraints(env, ing) ==
    LET over == env.calorie_count > env.constraints.calories
        hits == SelectSeq(ing.dietary_restrictions,
                          LAMBDA x : x \in env.constraints.allergies)
    IN  [count |-> (IF over THEN 1 ELSE 0) + Len(hits),
         violations |->
            [env.violations EXCEPT
                !.calories = IF over THEN env.calorie_count - env.constraints.calories
                             ELSE @,
                !.allergies = @ \o hits]]

\* len(self.step_order)
StepOrderLen == 5

\* SaladMakingEnv.step(action) on instance `env` with the bank `bk`: the
\* instance and the bank after it, what it returns, the exception raised.
gym_step(env, bk, action) ==
    LET stage == get_stage(env, bk)
        finished(e, dn) == dn \/ e.current_step >= Len(e.ingredients) + StepOrderLen
        out(e, b, reward, dn) ==
            [env |-> e, bank |-> b, reward |-> reward, done |-> finished(e, dn),
             raised |-> "none"]
    IN
    IF stage \in {"Vegetables", "Dressing", "Nuts"}
    THEN LET ingredient_name == env.ingredients[env.current_step + 1]
             us == update_state(bk[ingredient_name], action)
             bk1 == [bk EXCEPT ![ingredient_name] = us.ing]
         IN  IF us.result \in {"IndexError", "ValueError"}
             THEN [env |-> env, bank |-> bk, reward |-> 0, done |-> FALSE,
                   raised |-> us.result]
             ELSE IF us.result = "success"
             THEN IF is_ready(us.ing)
                  THEN LET e1 == [env EXCEPT
                                    !.calorie_count =
                                        @ + us.ing.requested_quantity * us.ing.calories,
                                    !.current_step = @ + 1]
                           cc == check_constraints(e1, us.ing)
                       IN  out([e1 EXCEPT !.violations = cc.violations], bk1,
                               10 - 2 * cc.count, FALSE)
                  ELSE out(env, bk1, 10, FALSE)
             ELSE LET e1 == [env EXCEPT !.current_step = @ + 1]
                      cc == check_constraints(e1, us.ing)
                  IN  out([e1 EXCEPT !.violations = cc.violations], bk1,
                          -5 - 2 * cc.count, FALSE)
    ELSE IF stage = "Mix"
    THEN IF action = "Mix"
         THEN out([env EXCEPT !.current_step = @ + 1], bk, 10, FALSE)
         ELSE out(env, bk, -5, FALSE)
    ELSE IF stage = "Serve"
    THEN IF action = "Serve" THEN out(env, bk, 10, TRUE)
         ELSE out(env, bk, -5, FALSE)
    ELSE out(env, bk, 0, FALSE)

(* Inputs of the instances. *)

GymItem(name, quantity, prep_method) ==
    [name |-> name, quantity |-> quantity, prep_method |-> prep_method]

\* Recipes in the form of the module's own: a Vegetable and Nuts with a prep
\* method, a Dressing, walnuts, which the bank does not hold, and a request
\* for more tomato than the bank holds.
GymRecipes ==
    { << GymItem("tomato", 2, "Dice") >>,
      << GymItem("sesame_dressing", 60, "None") >>,
      << GymItem("almonds", 50, "Grind"), GymItem("walnuts", 15, "None") >>,
      << GymItem("tomato", 3, "Dice") >> }

GymConstraints == { [calories |-> 30, allergies |-> {"nut"}] }

GymActions ==
    {"Measure", "Wash", "Dice", "Grind", "Roast", "Combine", "Mix", "Serve"}

\* The instances a program constructs: the first, then the second.
EnvIds == {1, 2}

(* The calls. *)

\* SaladMakingEnv(recipe, constraints)
GymConstruct(e, rcp, cons) ==
    /\ e \notin DOMAIN envs
    /\ \A f \in EnvIds : f < e => f \in DOMAIN envs
    /\ LET ii == initialize_ingredients(rcp, 1, bank, <<>>, NoViolations)
       IN  /\ bank' = ii.bank
           /\ IF ii.raised = "none"
              THEN envs' = (e :> [recipe |-> rcp, constraints |-> cons,
                                  calorie_count |-> 0,
                                  violations |-> ii.violations,
                                  current_step |-> 0,
                                  ingredients |-> ii.ingredients]) @@ envs
              ELSE envs' = envs
           /\ gret' = GymReturned(e, "init", "None", 0, FALSE, ii.raised)
    /\ UNCHANGED <<envVars, agentVars, encVars, fsmVars>>

\* SaladMakingEnv.reset: initialize_ingredients writes its availability
\* violations into the dict that reset then replaces.
GymReset(e) ==
    /\ e \in DOMAIN envs
    /\ LET ii == initialize_ingredients(envs[e].recipe, 1, bank, <<>>,
                                        envs[e].violations)
       IN  /\ bank' = ii.bank
           /\ IF ii.raised = "none"
              THEN envs' = [envs EXCEPT ![e] =
                              [@ EXCEPT !.ingredients = ii.ingredients,
                                        !.calorie_count = 0,
                                        !.violations = NoViolations,
                                        !.current_step = 0]]
              ELSE envs' = [envs EXCEPT ![e].violations = ii.violations]
           /\ gret' = GymReturned(e, "reset", "None", 0, FALSE, ii.raised)
    /\ UNCHANGED <<envVars, agentVars, encVars, fsmVars>>

\* SaladMakingEnv.step(action)
GymStep(e, action) ==
    /\ e \in DOMAIN envs
    /\ LET post == gym_step(envs[e], bank, action)
       IN  /\ bank' = post.bank
           /\ envs' = [envs EXCEPT ![e] = post.env]
           /\ gret' = GymReturned(e, "step", action, post.reward, post.done,
                                  post.raised)
    /\ UNCHANGED <<envVars, agentVars, encVars, fsmVars>>

InitGym ==
    /\ SaladEnvNew({ r \in Recipes : r[1].name = "tomato" /\ Len(r) = 1 })
    /\ AgentIdle /\ EncIdle /\ GymIdle /\ FsmIdle

NextGym ==
    \/ \E e \in EnvIds, rcp \in GymRecipes, cons \in GymConstraints :
            GymConstruct(e, rcp, cons)
    \/ \E e \in EnvIds : GymReset(e)
    \/ \E e \in EnvIds, action \in GymActions : GymStep(e, action)

SpecGym == InitGym /\ [][NextGym]_vars

(* Claims about gym_constrained_mdp.SaladMakingEnv, under SpecGym. *)

\* C9: after reset() returns, every ingredient of the environment is at
\* preparation step 0 in state 'raw'.
C9_ResetRestoresIngredients ==
    (gret.op = "reset" /\ gret.raised = "none")
        => \A i \in DOMAIN envs[gret.env].ingredients :
              LET ing == bank[envs[gret.env].ingredients[i]]
              IN  ing.prep_step = 0 /\ ing.state = "raw"

\* C10: a step on one instance leaves unchanged the ingredient objects (their
\* preparation state and available quantity) of every other instance built
\* from the same recipe.
C10_StepIsolated ==
    [][ gret'.op = "step"
        => \A f \in DOMAIN envs \ {gret'.env} :
              envs[f].recipe = envs[gret'.env].recipe
                => \A i \in DOMAIN envs[f].ingredients :
                      bank'[envs[f].ingredients[i]] = bank[envs[f].ingredients[i]] ]_vars

\* C13: an ingredient becomes ready only when the actions of its prep_flow
\* have succeeded in prep_flow order: the step that makes it ready succeeds
\* with the last action of the flow, and the action that succeeded before
\* it (kept in the ingredient's state) is the one before the last.
C13_ReadyAfterPrepFlow ==
    [][ gret'.op = "step"
        => \A n \in DOMAIN bank :
              (~is_ready(bank[n]) /\ is_ready(bank'[n]))
                => LET flow == bank[n].prep_flow
                       last == Len(flow)
                   IN  /\ last >= 2
                       /\ gret'.action = flow[last]
                       /\ bank[n].state = lower(flow[last - 1]) ]_vars

\* C14: when the constructor or reset() has returned, violations
\* ['availability'] of the instance has an entry for each recipe ingredient
\* that is not in the bank or whose requested quantity exceeds the available
\* quantity.
C14_AvailabilityListed ==
    (gret.op \in {"init", "reset"} /\ gret.raised = "none")
        => LET env == envs[gret.env]
           IN  \A i \in DOMAIN env.recipe :
                  (\/ env.recipe[i].name \notin DOMAIN bank
                   \/ env.recipe[i].quantity
                        > bank[env.recipe[i].name].available_quantity)
                    => env.recipe[i].name \in DOMAIN env.violations.availability

\* C17: no available_quantity is negative, and no step raises the ValueError
\* of apply_ingredient_effects.
C17_NoShortage ==
    /\ \A n \in DOMAIN bank : bank[n].available_quantity >= 0
    /\ ~(gret.op = "step" /\ gret.raised = "ValueError")

----------------------------------------------------------------------------
(* The two finite-state salad drafts: simple_rl_salad.transition_func and   *)
(* gym_salad.SaladMakingEnv.step.                                           *)

\* A dict from the pairs <<key, value>> that define it.
Dict(pairs) ==
    [k \in { q[1] : q \in pairs } |-> (CHOOSE q \in pairs : q[1] = k)[2]]

\* dict.get(key, default)
Get(dict, key, default) == IF key \in DOMAIN dict THEN dict[key] ELSE default

\* simple_rl_salad: the `transitions` of transition_func.
simple_transitions ==
    Dict({
        <<"Start", Dict({<<"Measure", "Measuring">>, <<"Clarify", "Clarification">>})>>,
        <<"Measuring", Dict({<<"Clean", "Cleaning">>, <<"Clarify", "Clarification">>})>>,
        <<"Cleaning", Dict({<<"Cut", "Cutting">>, <<"Clarify", "Clarification">>})>>,
        <<"Cutting", Dict({<<"Mix", "Mixing">>, <<"Clarify", "Clarification">>})>>,
        <<"Mixing", Dict({<<"Add Dressing", "Dressing">>, <<"Clarify", "Clarification">>})>>,
        <<"Dressing", Dict({<<"Serve", "Serving">>, <<"Clarify", "Clarification">>})>>,
        <<"Serving", Dict({<<"Complete", "Task Complete">>, <<"Clarify", "Clarification">>})>>,
        <<"Clarification", Dict({<<"Substitute", "Substitute">>, <<"Measure", "Measuring">>})>>,
        <<"Substitute", Dict({<<"Measure", "Measuring">>})>> })

\* simple_rl_salad.transition_func(State(name), action): the name of the
\* state it returns.
transition_func(name, action) ==
    Get(Get(simple_transitions, name, <<>>), action, name)

\* gym_salad: self.states and self.actions, indexed from 0 in the source.
salad_states ==
    << "Start", "Measuring", "Cleaning", "Cutting", "Mixing",
       "Dressing", "Serving", "Task Complete", "Clarification", "Substitute" >>

salad_actions ==
    << "Measure", "Clean", "Cut", "Mix", "Add Dressing",
       "Serve", "Clarify", "Substitute" >>

\* self.transitions with a slip in the row of Mixing: Add Dressing leads to
\* Serving.
salad_transitions_slip ==
    Dict({
        <<0, Dict({<<"Measure", 1>>, <<"Clarify", 8>>})>>,
        <<1, Dict({<<"Clean", 2>>, <<"Clarify", 8>>})>>,
        <<2, Dict({<<"Cut", 3>>, <<"Clarify", 8>>})>>,
        <<3, Dict({<<"Mix", 4>>, <<"Clarify", 8>>})>>,
        <<4, Dict({<<"Add Dressing", 6>>, <<"Clarify", 8>>})>>,
        <<5, Dict({<<"Serve", 6>>, <<"Clarify", 8>>})>>,
        <<6, Dict({<<"Complete", 7>>})>>,
        <<8, Dict({<<"Substitute", 9>>, <<"Measure", 1>>})>>,
        <<9, Dict({<<"Measure", 1>>})>> })

\* gym_salad: self.transitions (state 7 has no row).
salad_transitions ==
    Dict({
        <<0, Dict({<<"Measure", 1>>, <<"Clarify", 8>>})>>,
        <<1, Dict({<<"Clean", 2>>, <<"Clarify", 8>>})>>,
        <<2, Dict({<<"Cut", 3>>, <<"Clarify", 8>>})>>,
        <<3, Dict({<<"Mix", 4>>, <<"Clarify", 8>>})>>,
        <<4, Dict({<<"Add Dressing", 5>>, <<"Clarify", 8>>})>>,
        <<5, Dict({<<"Serve", 6>>, <<"Clarify", 8>>})>>,
        <<6, Dict({<<"Complete", 7>>})>>,
        <<8, Dict({<<"Substitute", 9>>, <<"Measure", 1>>})>>,
        <<9, Dict({<<"Measure", 1>>})>> })

\* gym_salad.SaladMakingEnv.step(action) in self.state = st: the new
\* self.state, or the KeyError of self.transitions[self.state].
salad_step(st, action) ==
    LET action_name == salad_actions[action + 1]
    IN  IF st \notin DOMAIN salad_transitions
        THEN [raised |-> "KeyError", state |-> st]
        ELSE IF action_name \in DOMAIN salad_transitions[st]
        THEN [raised |-> "none", state |-> salad_transitions[st][action_name]]
        ELSE [raised |-> "none", state |-> st]

\* Both drafts are applied to corresponding pairs: state number st and its
\* name, action number and its name.
InitSalad ==
    /\ SaladEnvNew({ r \in Recipes : r[1].name = "tomato" /\ Len(r) = 1 })
    /\ AgentIdle /\ EncIdle /\ GymIdle
    /\ fsm_in \in [state : 0..(Len(salad_states) - 1),
                    action : 0..(Len(salad_actions) - 1)]
    /\ fsm_out = <<>>

Transition ==
    /\ fsm_out = <<>>
    /\ fsm_out' =
            [simple |-> transition_func(salad_states[fsm_in.state + 1],
                                        salad_actions[fsm_in.action + 1]),
             gym |-> salad_step(fsm_in.state, fsm_in.action)]
    /\ UNCHANGED <<envVars, agentVars, encVars, gymVars, fsm_in>>

NextSalad == Transition

SpecSalad == InitSalad /\ [][NextSalad]_vars

\* The common part: the states Start .. Serving and the six actions
\* Measure .. Serve.
C16_Common ==
    /\ salad_states[fsm_in.state + 1] \in
            {"Start", "Measuring", "Cleaning", "Cutting", "Mixing", "Dressing",
             "Serving"}
    /\ salad_actions[fsm_in.action + 1] \in
            {"Measure", "Clean", "Cut", "Mix", "Add Dressing", "Serve"}

\* C16: on the common part, transition_func and the state update of step
\* take corresponding (state, action) pairs to corresponding next states,
\* and a pair with no transition leaves the state unchanged in both.
C16_SameMachine ==
    (fsm_out # <<>> /\ C16_Common)
        => /\ fsm_out.gym.raised = "none"
           /\ salad_states[fsm_out.gym.state + 1] = fsm_out.simple
           /\ (\/ fsm_out.gym.state = fsm_in.state
               \/ fsm_out.gym.state = fsm_in.state + 1)
           /\ fsm_out.gym.state = fsm_in.state + 1
                <=> fsm_in.action = fsm_in.state

\* C16: Add Dressing was applied in Mixing, and both drafts are in Dressing.
C16_Witness ==
    /\ fsm_out # <<>>
    /\ salad_states[fsm_in.state + 1] = "Mixing"
    /\ salad_actions[fsm_in.action + 1] = "Add Dressing"
    /\ fsm_out.simple = "Dressing" /\ fsm_out.gym.state = 5

====
